---- MODULE Spec2Model ----
(***************************************************************************)
(* A model of the sparse-vec crate: SparseVec<T, Alloc> keeps two          *)
(* Vec<_, Alloc> buffers, `indices` (sorted, unique) and `values`          *)
(* (parallel to `indices`).  A Vec is modelled by its elements, its        *)
(* capacity, the identity of its heap block and the allocator value it     *)
(* carries.  T is an Eq type of ValueSize bytes, not zero-sized; usize is  *)
(* taken 16 bits wide, so that a request of usize::MAX elements and the    *)
(* limit of isize::MAX bytes per buffer are numbers TLC can compute with.  *)
(***************************************************************************)
EXTENDS Integers, Sequences, FiniteSets, TLC

\* Largest index used as a key: keys are 0..MaxIndex.
MaxIndex == 2
\* Largest argument given to with_capacity / with_capacity_in / reserve.
MaxSpace == 2
\* Largest index used as a key where two containers are compared.
MaxPairIndex == 1
\* Number of heap blocks.
NumBlocks == 5
\* size_of::<T>() in bytes, for the T of `values: Vec<T, Alloc>`.
ValueSize == 1
\* size_of::<usize>() in bytes, for `indices: Vec<usize, Alloc>`.
IndexSize == 2
\* usize::MAX and isize::MAX.
UsizeMax == 65535
IsizeMax == UsizeMax \div 2

Keys == 0..MaxIndex
PairKeys == 0..MaxPairIndex
Values == {"a", "b"}
Spaces == 0..MaxSpace
\* The arguments given to with_capacity / with_capacity_in / reserve: the
\* small ones and the largest usize.
Requests == Spaces \cup {UsizeMax}
Arenas == {"A"}
Blocks == 1..NumBlocks
Slots == {1, 2}

\* Option<T>
None == <<>>
Some(x) == <<x>>

Max(a, b) == IF a >= b THEN a ELSE b
Min(a, b) == IF a <= b THEN a ELSE b

VARIABLES
  st,       \* st[s]: "none" (no container in slot s) or "live"
  indices,  \* indices[s]: the `indices` Vec of the container in slot s
  values,   \* values[s]: the `values` Vec of the container in slot s
  parts,    \* the pair returned by into_parts and held by the caller, or <<>>
  heap,     \* heap[b]: "free", or the arena that allocated block b
  fault,    \* a block was released twice or through the wrong allocator
  outcome,  \* how the last call ended: "ok", "panic" (it unwound and the
            \* caller goes on) or "abort" (the process has ended)
  diag,     \* the panic payload of the last call
  last,     \* the last call: its name and arguments
  ret,      \* what the last call returned
  stored,   \* stored[s][k]: the value most recently written for key k
  snap,     \* the content of the container consumed by into_parts
  built,    \* built[s]: Some(n) while the container in slot s is the one
            \* with_capacity(n) made, no reserve has reallocated it and
            \* no more than n entries were inserted
  held,     \* held[i]: the allocator BogusAlloc::allocator removed from
            \* parts[i], or NoAllocator
  husk      \* the Vec that BogusAlloc::take left in place of its argument

vars == <<st, indices, values, parts, heap, fault, outcome, diag, last, ret,
          stored, snap, built, held, husk>>

----------------------------------------------------------------------------
\* alloc::vec::Vec

\* An allocator value: the arena whose memory it hands out, and the
\* expression that produced the value (its origin).  Two values with the
\* same arena allocate from and release to the same memory; whether they
\* are one allocator or two (a handle such as &A or Rc<A> against an
\* allocator held by value) is up to the type Alloc and is not modelled.
NoAllocator == [arena |-> "none", origin |-> <<>>]
\* allocator.clone(): a second value for the same arena.
AllocClone(a) == [a EXCEPT !.origin = <<"clone">> \o a.origin]
\* Alloc::default(), as the k-th call of it in a constructor.
AllocDefault(k) ==
  [arena |-> "default", origin |-> IF k = 1 THEN <<"default#1">> ELSE <<"default#2">>]
Given(x) == [arena |-> x, origin |-> <<"given">>]
NullVec == [buf |-> <<>>, cap |-> 0, ptr |-> 0, alloc |-> NoAllocator]

\* Vec::new_in: no allocation, capacity 0, dangling pointer.
VecNewIn(a) == [buf |-> <<>>, cap |-> 0, ptr |-> 0, alloc |-> a]

\* The block handed out by the next allocation: the lowest free one.
FreshBlock(h) ==
  CHOOSE b \in Blocks : h[b] = "free" /\ \A c \in Blocks : h[c] = "free" => b <= c

Allocate(h, b, a) == [h EXCEPT ![b] = a.arena]

\* Allocator::deallocate of block b through allocator a.
Deallocate(h, b, a) == [h EXCEPT ![b] = "free"]
BadFree(h, b, a) == h[b] # a.arena

\* Dropping a Vec releases its block through its own allocator, unless the
\* capacity is 0 (nothing was allocated).
VecDropHeap(v, h) == IF v.cap = 0 THEN h ELSE Deallocate(h, v.ptr, v.alloc)
VecDropFault(v, h) == v.cap # 0 /\ BadFree(h, v.ptr, v.alloc)

\* The payload of the panic of RawVec's capacity_overflow().
CapacityOverflowMsg == "capacity overflow"

\* Vec::with_capacity_in(n, _) for elements of `size` bytes: the buffer
\* would be larger than isize::MAX bytes.
WithCapacityOverflows(n, size) == n * size > IsizeMax

\* Vec::with_capacity_in
VecWithCapacityIn(n, a, h) ==
  IF n = 0 THEN [vec |-> VecNewIn(a), heap |-> h]
  ELSE LET b == FreshBlock(h)
       IN [vec |-> [buf |-> <<>>, cap |-> n, ptr |-> b, alloc |-> a],
           heap |-> Allocate(h, b, a)]

\* RawVec's min_non_zero_cap for elements of `size` bytes.
MinNonZeroCap(size) == IF size = 1 THEN 8 ELSE IF size <= 1024 THEN 4 ELSE 1

\* RawVec::grow_amortized: the capacity after growing for `additional` more
\* elements of `size` bytes.
GrowAmortized(v, additional, size) ==
  Max(Max(v.cap * 2, Len(v.buf) + additional), MinNonZeroCap(size))

\* RawVec::grow_amortized ends in CapacityOverflow: len + additional does
\* not fit a usize, or the grown buffer would be larger than isize::MAX
\* bytes.
GrowOverflows(v, additional, size) ==
  \/ Len(v.buf) + additional > UsizeMax
  \/ GrowAmortized(v, additional, size) * size > IsizeMax

\* The buffer reallocated to capacity n by Allocator::grow, as the trait
\* provides it: the new block is allocated while the old one is held, the
\* elements are copied, and the old block is released afterwards.
VecGrowTo(v, n, h) ==
  LET b == FreshBlock(h)
      h1 == Allocate(h, b, v.alloc)
  IN [vec |-> [v EXCEPT !.cap = n, !.ptr = b],
      heap |-> IF v.cap = 0 THEN h1 ELSE Deallocate(h1, v.ptr, v.alloc)]

\* Vec::reserve
NeedsReserve(v, additional) == v.cap - Len(v.buf) < additional
VecReserve(v, additional, h, size) ==
  IF NeedsReserve(v, additional)
  THEN VecGrowTo(v, GrowAmortized(v, additional, size), h)
  ELSE [vec |-> v, heap |-> h]

\* A variant of the insertion that overwrites the element at pos instead
\* of shifting the tail.
InsertAtOverwrite(seq, pos, x) ==
  SubSeq(seq, 1, pos) \o <<x>> \o SubSeq(seq, pos + 2, Len(seq))

InsertAt(seq, pos, x) ==
  SubSeq(seq, 1, pos) \o <<x>> \o SubSeq(seq, pos + 1, Len(seq))

\* Vec::insert(pos, x), pos counted from 0: grows by grow_one when full,
\* then shifts the tail right by one slot and writes x.
\* A variant of the test that grows as soon as one free slot is left.
NeedsGrowOneEarly(v) == Len(v.buf) + 1 >= v.cap
NeedsGrowOne(v) == Len(v.buf) = v.cap
VecInsert(v, pos, x, h, size) ==
  LET g == IF NeedsGrowOne(v) THEN VecGrowTo(v, GrowAmortized(v, 1, size), h)
           ELSE [vec |-> v, heap |-> h]
  IN [vec |-> [g.vec EXCEPT !.buf = InsertAt(g.vec.buf, pos, x)], heap |-> g.heap]

\* Vec::clone: a new block of exactly len elements, allocator cloned.
VecClone(v, h) ==
  LET w == VecWithCapacityIn(Len(v.buf), AllocClone(v.alloc), h)
  IN [vec |-> [w.vec EXCEPT !.buf = v.buf], heap |-> w.heap]

\* bogus_allocs::BogusAlloc, the allocator that owns no memory.
BogusAlloc == [arena |-> "bogus", origin |-> <<"BogusAlloc">>]

\* BogusAlloc::deallocate is unreachable!("no deallocation is allowed"):
\* the payload of the panic it raises.
BogusDeallocateMsg ==
  "internal error: entered unreachable code: no deallocation is allowed"

\* Dropping v calls BogusAlloc::deallocate: v is attached to BogusAlloc and
\* has a buffer to release.
VecDropPanics(v) == v.cap # 0 /\ v.alloc = BogusAlloc

\* Vec::into_parts / into_parts_with_alloc: pointer, length and capacity.
VecIntoParts(v) == [ptr |-> v.ptr, len |-> Len(v.buf), cap |-> v.cap]

\* Vec::from_parts_in(ptr, len, cap, a): the first len elements of the
\* buffer at ptr, whose content is mem, owned through allocator a.
VecFromPartsIn(raw, mem, a) ==
  [buf |-> SubSeq(mem, 1, raw.len), cap |-> raw.cap, ptr |-> raw.ptr, alloc |-> a]

\* A variant of take that rebuilds the Vec with length 0.
takeNoLen(vec, a) ==
  [out |-> VecFromPartsIn([VecIntoParts(vec) EXCEPT !.len = 0], vec.buf, a),
   vec |-> VecNewIn(BogusAlloc)]

\* A variant of take that leaves *vec as it was.
takeKeepsOriginal(vec, a) ==
  [out |-> VecFromPartsIn(VecIntoParts(vec), vec.buf, a), vec |-> vec]

\* BogusAlloc::take(vec, allocator): `out` is the returned Vec, `vec` is
\* what mem::replace left in *vec.
take(vec, a) ==
  LET left == VecNewIn(BogusAlloc)
      raw == VecIntoParts(vec)
  IN [out |-> VecFromPartsIn(raw, vec.buf, a), vec |-> left]

\* A variant of BogusAlloc::allocator that hands back a BogusAlloc.
allocatorLost(vec) ==
  [vec |-> VecFromPartsIn(VecIntoParts(vec), vec.buf, BogusAlloc), alloc |-> BogusAlloc]

\* BogusAlloc::allocator(vec): the Vec retyped against BogusAlloc, and the
\* allocator it had.
allocator(vec) ==
  LET raw == VecIntoParts(vec)
  IN [vec |-> VecFromPartsIn(raw, vec.buf, BogusAlloc), alloc |-> vec.alloc]

\* core::slice::binary_search, as the standard library computes it.
\* Result: [ok |-> TRUE, pos |-> p] for Ok(p), [ok |-> FALSE, pos |-> p] for Err(p).
RECURSIVE BSearchLoop(_, _, _, _)
BSearchLoop(seq, x, base, size) ==
  IF size > 1
  THEN LET half == size \div 2
           mid == base + half
       IN BSearchLoop(seq, x, IF seq[mid + 1] > x THEN base ELSE mid, size - half)
  ELSE base

binary_search(seq, x) ==
  IF Len(seq) = 0 THEN [ok |-> FALSE, pos |-> 0]
  ELSE LET base == BSearchLoop(seq, x, 0, Len(seq))
       IN IF seq[base + 1] = x THEN [ok |-> TRUE, pos |-> base]
          ELSE [ok |-> FALSE, pos |-> base + (IF seq[base + 1] < x THEN 1 ELSE 0)]

\* A variant in which a failed allocation unwinds and the caller goes on.
AllocErrorUnwinds == "panic"

\* handle_alloc_error: a failed allocation ends the process.
AllocErrorOutcome == "abort"

----------------------------------------------------------------------------
\* Observers of SparseVec

count(s) == Len(indices[s].buf)
is_empty(s) == Len(indices[s].buf) = 0
\* A variant of is_set that only looks whether anything is stored.
is_setAny(s, index) == Len(indices[s].buf) > 0
is_set(s, index) == binary_search(indices[s].buf, index).ok

\* get / get_mut: values.get_unchecked(value_index)
get(s, index) ==
  LET r == binary_search(indices[s].buf, index)
  IN IF r.ok THEN Some(values[s].buf[r.pos + 1]) ELSE None

\* A variant of iter that stops one step early.
iterShort(s) ==
  [i \in 1..(Min(Len(indices[s].buf), Len(values[s].buf)) - 1) |->
     <<indices[s].buf[i], values[s].buf[i]>>]

\* indices.iter().copied().zip(values.iter()): stops with the shorter side.
iter(s) ==
  [i \in 1..Min(Len(indices[s].buf), Len(values[s].buf)) |->
     <<indices[s].buf[i], values[s].buf[i]>>]

\* A variant of eq that also compares the capacities.
eqWithCapacity(s, t) ==
  /\ indices[s].buf = indices[t].buf /\ values[s].buf = values[t].buf
  /\ indices[s].cap = indices[t].cap

\* PartialEq::eq
eq(s, t) ==
  indices[s].buf = indices[t].buf /\ values[s].buf = values[t].buf

Live(s) == st[s] = "live"
\* The Vecs in scope that own a buffer: those of the live containers, those
\* of the pair held by the caller, and the Vec that take left behind.
Owning ==
  {<<"indices", s>> : s \in {x \in Slots : Live(x) /\ indices[x].cap # 0}}
    \cup {<<"values", s>> : s \in {x \in Slots : Live(x) /\ values[x].cap # 0}}
    \cup {<<"parts", i>> : i \in {j \in DOMAIN parts : parts[j].cap # 0}}
    \cup {<<"husk", i>> : i \in {j \in DOMAIN husk : husk[j].cap # 0}}

BlockOf(o) ==
  IF o[1] = "indices" THEN indices[o[2]].ptr
  ELSE IF o[1] = "values" THEN values[o[2]].ptr
  ELSE IF o[1] = "parts" THEN parts[o[2]].ptr
  ELSE husk[o[2]].ptr

\* The blocks that are allocated and that no Vec in scope owns.
Leaked == {b \in Blocks : heap[b] # "free" /\ \A o \in Owning : BlockOf(o) # b}

\* Slot s is free for a new container: the caller holds one container or
\* the parts of one, not both, has let go of what take left behind, and
\* builds nothing more once a block has been lost.
Vacant(s) == st[s] = "none" /\ parts = <<>> /\ husk = <<>> /\ Leaked = {}
Running == outcome # "abort"
NoDiag == [msg |-> "", args |-> <<>>]
Call(op, s, index, value) == [op |-> op, s |-> s, index |-> index, value |-> value]
NoStored == [k \in Keys |-> None]

Init ==
  /\ st = [s \in Slots |-> "none"]
  /\ indices = [s \in Slots |-> NullVec]
  /\ values = [s \in Slots |-> NullVec]
  /\ parts = <<>>
  /\ heap = [b \in Blocks |-> "free"]
  /\ fault = FALSE
  /\ outcome = "ok"
  /\ diag = NoDiag
  /\ last = Call("init", 0, 0, "-")
  /\ ret = None
  /\ stored = [s \in Slots |-> NoStored]
  /\ snap = <<>>
  /\ built = [s \in Slots |-> None]
  /\ held = <<NoAllocator, NoAllocator>>
  /\ husk = <<>>

----------------------------------------------------------------------------
\* Operations of SparseVec.  Every call records itself in `last`, its result
\* in `ret` and the way it ended in `outcome`.

\* The points of a call at which an allocation can fail.
FailPoints(iNeeds, vNeeds) ==
  {"none"} \cup (IF iNeeds THEN {"indices"} ELSE {})
           \cup (IF vNeeds THEN {"values"} ELSE {})

Returned(call, r) ==
  /\ last' = call /\ ret' = r /\ outcome' = "ok" /\ diag' = NoDiag

\* A call that only reads the container.
Observed(call, r) ==
  /\ Returned(call, r)
  /\ UNCHANGED <<st, built, indices, values, parts, held, husk, heap, fault, stored, snap>>

\* A call whose allocation failed: handle_alloc_error.
Failed(call) ==
  /\ last' = call /\ ret' = None /\ outcome' = AllocErrorOutcome /\ diag' = NoDiag

\* A call that panicked with the payload msg and unwound to the caller.
Panicked(call, msg) ==
  /\ last' = call /\ ret' = None /\ outcome' = "panic"
  /\ diag' = [msg |-> msg, args |-> <<>>]

\* from_parts: the container is the two Vecs as given.
FromParts(iv, vv) == [indices |-> iv, values |-> vv]

\* The state after constructing, in slot s, a container from the two Vecs.
Constructed(s, iv, vv, h, abstract, requested) ==
  LET c == FromParts(iv, vv)
  IN /\ st' = [st EXCEPT ![s] = "live"]
     /\ indices' = [indices EXCEPT ![s] = c.indices]
     /\ values' = [values EXCEPT ![s] = c.values]
     /\ heap' = h
     /\ stored' = [stored EXCEPT ![s] = abstract]
     /\ built' = [built EXCEPT ![s] = requested]

new_in(s, x) ==
  /\ Running /\ Vacant(s)
  /\ Constructed(s, VecNewIn(AllocClone(Given(x))), VecNewIn(Given(x)), heap, NoStored, None)
  /\ Returned(Call("new_in", s, 0, "-"), None)
  /\ UNCHANGED <<parts, held, husk, fault, snap>>

new(s) ==
  /\ Running /\ Vacant(s)
  /\ Constructed(s, VecNewIn(AllocDefault(1)), VecNewIn(AllocDefault(2)), heap, NoStored, None)
  /\ Returned(Call("new", s, 0, "-"), None)
  /\ UNCHANGED <<parts, held, husk, fault, snap>>

\* with_capacity_in / with_capacity on allocators ia (indices) and va
\* (values): the indices Vec is made first, then the values Vec.  A
\* capacity beyond isize::MAX bytes panics before anything is allocated
\* for that Vec; if it is the values Vec, the indices Vec already made is
\* dropped while unwinding.
WithCapacity(op, s, capacity, ia, va, fail) ==
  LET i == VecWithCapacityIn(capacity, ia, heap)
      v == VecWithCapacityIn(capacity, va, i.heap)
      call == Call(op, s, capacity, "-")
      ovI == WithCapacityOverflows(capacity, IndexSize)
      ovV == WithCapacityOverflows(capacity, ValueSize)
  IN /\ Running /\ Vacant(s)
     /\ IF ovI
        THEN /\ fail = "none"
             /\ Panicked(call, CapacityOverflowMsg)
             /\ UNCHANGED <<st, built, indices, values, stored, heap>>
        ELSE /\ fail \in FailPoints(capacity > 0, capacity > 0 /\ ~ovV)
             /\ IF fail = "none" /\ ~ovV
                THEN /\ Constructed(s, i.vec, v.vec, v.heap, NoStored, Some(capacity))
                     /\ Returned(call, None)
                ELSE /\ heap' = IF fail = "values" THEN i.heap
                                ELSE IF fail = "indices" THEN heap
                                ELSE VecDropHeap(i.vec, i.heap)
                     /\ IF fail = "none" THEN Panicked(call, CapacityOverflowMsg)
                        ELSE Failed(call)
                     /\ UNCHANGED <<st, built, indices, values, stored>>
     /\ UNCHANGED <<parts, held, husk, fault, snap>>

with_capacity_in(s, capacity, x, fail) ==
  WithCapacity("with_capacity_in", s, capacity, AllocClone(Given(x)), Given(x), fail)

with_capacity(s, capacity, fail) ==
  WithCapacity("with_capacity", s, capacity, AllocDefault(1), AllocDefault(2), fail)

do_count(s) ==
  /\ Running /\ Live(s)
  /\ Observed(Call("count", s, 0, "-"), Some(count(s)))

do_is_empty(s) ==
  /\ Running /\ Live(s)
  /\ Observed(Call("is_empty", s, 0, "-"), Some(is_empty(s)))

do_is_set(s, index) ==
  /\ Running /\ Live(s)
  /\ Observed(Call("is_set", s, index, "-"), Some(is_set(s, index)))

do_get(s, index) ==
  /\ Running /\ Live(s)
  /\ Observed(Call("get", s, index, "-"), get(s, index))

\* The caller writes w through the &mut T that get_mut / index_mut returned.
WriteThrough(s, index, w) ==
  LET r == binary_search(indices[s].buf, index)
  IN IF r.ok
     THEN /\ values' = [values EXCEPT ![s].buf[r.pos + 1] = w]
          /\ stored' = [stored EXCEPT ![s][index] = Some(w)]
     ELSE UNCHANGED <<values, stored>>

get_mut(s, index, w) ==
  /\ Running /\ Live(s)
  /\ WriteThrough(s, index, w)
  /\ Returned(Call("get_mut", s, index, w), get(s, index))
  /\ UNCHANGED <<st, built, indices, parts, held, husk, heap, fault, snap>>

\* A variant of expect that returns the absent marker instead of panicking.
ExpectQuiet(opt, msg) == [outcome |-> "ok", ret |-> opt, diag |-> NoDiag]

\* Option::expect(msg): the value, or a panic whose payload is msg.
Expect(opt, msg) ==
  IF opt = None
  THEN [outcome |-> "panic", ret |-> None, diag |-> [msg |-> msg, args |-> <<>>]]
  ELSE [outcome |-> "ok", ret |-> opt, diag |-> NoDiag]

index(s, idx) ==
  LET e == Expect(get(s, idx), "accessed and empty index")
  IN /\ Running /\ Live(s)
     /\ last' = Call("index", s, idx, "-")
     /\ ret' = e.ret /\ outcome' = e.outcome /\ diag' = e.diag
     /\ UNCHANGED <<st, built, indices, values, parts, held, husk, heap, fault, stored, snap>>

index_mut(s, idx, w) ==
  LET e == Expect(get(s, idx), "accessed and empty index")
  IN /\ Running /\ Live(s)
     /\ last' = Call("index_mut", s, idx, w)
     /\ ret' = e.ret /\ outcome' = e.outcome /\ diag' = e.diag
     /\ WriteThrough(s, idx, w)
     /\ UNCHANGED <<st, built, indices, parts, held, husk, heap, fault, snap>>

\* A variant of reserve that forgets the values buffer.
ReserveIndicesOnly(iv, vv, space, h) ==
  LET i == VecReserve(iv, space, h, IndexSize)
  IN [indices |-> i.vec, values |-> vv, heap |-> i.heap, halfway |-> i]

\* The body of reserve: indices.reserve(space), then values.reserve(space).
Reserve(iv, vv, space, h) ==
  LET i == VecReserve(iv, space, h, IndexSize)
      v == VecReserve(vv, space, i.heap, ValueSize)
  IN [indices |-> i.vec, values |-> v.vec, heap |-> v.heap, halfway |-> i]

\* reserve: a growth that ends in CapacityOverflow panics before anything
\* is allocated for that Vec (for the values Vec, after the indices Vec
\* has grown); one whose allocation fails ends the process.
reserve(s, space, fail) ==
  LET n == Reserve(indices[s], values[s], space, heap)
      call == Call("reserve", s, space, "-")
      ovI == NeedsReserve(indices[s], space) /\ GrowOverflows(indices[s], space, IndexSize)
      ovV == NeedsReserve(values[s], space) /\ GrowOverflows(values[s], space, ValueSize)
  IN /\ Running /\ Live(s)
     /\ IF ovI
        THEN /\ fail = "none"
             /\ Panicked(call, CapacityOverflowMsg)
             /\ UNCHANGED <<indices, values, heap, built>>
        ELSE /\ fail \in FailPoints(NeedsReserve(indices[s], space),
                                    NeedsReserve(values[s], space) /\ ~ovV)
             /\ IF fail = "none" /\ ~ovV
                THEN /\ indices' = [indices EXCEPT ![s] = n.indices]
                     /\ values' = [values EXCEPT ![s] = n.values]
                     /\ heap' = n.heap
                     /\ built' = [built EXCEPT ![s] =
                                  IF n.indices = indices[s] /\ n.values = values[s]
                                  THEN built[s] ELSE None]
                     /\ Returned(call, None)
                ELSE /\ indices' = IF fail = "indices" THEN indices
                                   ELSE [indices EXCEPT ![s] = n.halfway.vec]
                     /\ heap' = IF fail = "indices" THEN heap ELSE n.halfway.heap
                     /\ built' = [built EXCEPT ![s] =
                                  IF fail = "none" /\ n.halfway.vec # indices[s]
                                  THEN None ELSE built[s]]
                     /\ IF fail = "none" THEN Panicked(call, CapacityOverflowMsg)
                        ELSE Failed(call)
                     /\ UNCHANGED values
     /\ UNCHANGED <<st, parts, held, husk, fault, stored, snap>>

\* A variant of the Err arm that appends the index instead of inserting it
\* at the position the search found.
SetInsertAppend(iv, vv, pos, idx, value, h) ==
  LET i == VecInsert(iv, Len(iv.buf), idx, h, IndexSize)
      v == VecInsert(vv, Len(vv.buf), value, i.heap, ValueSize)
  IN [indices |-> i.vec, values |-> v.vec, heap |-> v.heap, halfway |-> i]

\* A variant of the Err arm that appends the value only.
SetInsertValueLast(iv, vv, pos, idx, value, h) ==
  LET i == VecInsert(iv, pos, idx, h, IndexSize)
      v == VecInsert(vv, Len(vv.buf), value, i.heap, ValueSize)
  IN [indices |-> i.vec, values |-> v.vec, heap |-> v.heap, halfway |-> i]

\* The Err arm of set: indices.insert, then values.insert.
SetInsert(iv, vv, pos, idx, value, h) ==
  LET i == VecInsert(iv, pos, idx, h, IndexSize)
      v == VecInsert(vv, pos, value, i.heap, ValueSize)
  IN [indices |-> i.vec, values |-> v.vec, heap |-> v.heap, halfway |-> i]

\* A variant of the Ok arm that keeps the old value in place.
SetReplaceKeep(vv, pos, value) ==
  [values |-> vv, ret |-> Some(vv.buf[pos + 1])]

\* A variant of the Ok arm that returns the new value.
SetReplaceReturnsNew(vv, pos, value) ==
  [values |-> [vv EXCEPT !.buf[pos + 1] = value], ret |-> Some(value)]

\* The Ok arm of set: mem::replace(&mut values[value_index], value).
SetReplace(vv, pos, value) ==
  [values |-> [vv EXCEPT !.buf[pos + 1] = value], ret |-> Some(vv.buf[pos + 1])]

\* The record of with_capacity(n) is kept while no more than n entries
\* have been inserted.
StillBuilt(b, iv) == IF b # None /\ Len(iv.buf) > b[1] THEN None ELSE b

\* set.  On the Err arm a growth that ends in CapacityOverflow panics (for
\* the values Vec, after the index has been inserted); one whose
\* allocation fails ends the process.
set(s, idx, value, fail) ==
  LET r == binary_search(indices[s].buf, idx)
      call == Call("set", s, idx, value)
      ovI == NeedsGrowOne(indices[s]) /\ GrowOverflows(indices[s], 1, IndexSize)
      ovV == NeedsGrowOne(values[s]) /\ GrowOverflows(values[s], 1, ValueSize)
  IN /\ Running /\ Live(s)
     /\ IF r.ok
        THEN LET o == SetReplace(values[s], r.pos, value)
             IN /\ fail = "none"
                /\ values' = [values EXCEPT ![s] = o.values]
                /\ stored' = [stored EXCEPT ![s][idx] = Some(value)]
                /\ Returned(call, o.ret)
                /\ UNCHANGED <<indices, heap, built>>
        ELSE LET n == SetInsert(indices[s], values[s], r.pos, idx, value, heap)
             IN IF ovI
                THEN /\ fail = "none"
                     /\ Panicked(call, CapacityOverflowMsg)
                     /\ UNCHANGED <<indices, values, heap, stored, built>>
                ELSE /\ fail \in FailPoints(NeedsGrowOne(indices[s]),
                                            NeedsGrowOne(values[s]) /\ ~ovV)
                     /\ IF fail = "none" /\ ~ovV
                        THEN /\ indices' = [indices EXCEPT ![s] = n.indices]
                             /\ values' = [values EXCEPT ![s] = n.values]
                             /\ heap' = n.heap
                             /\ stored' = [stored EXCEPT ![s][idx] = Some(value)]
                             /\ built' = [built EXCEPT ![s] = StillBuilt(built[s], n.indices)]
                             /\ Returned(call, None)
                        ELSE /\ indices' = IF fail = "indices" THEN indices
                                           ELSE [indices EXCEPT ![s] = n.halfway.vec]
                             /\ heap' = IF fail = "indices" THEN heap ELSE n.halfway.heap
                             /\ IF fail = "none" THEN Panicked(call, CapacityOverflowMsg)
                                ELSE Failed(call)
                             /\ UNCHANGED <<values, stored, built>>
     /\ UNCHANGED <<st, parts, held, husk, fault, snap>>

do_iter(s) ==
  /\ Running /\ Live(s)
  /\ Observed(Call("iter", s, 0, "-"), iter(s))

\* iter_mut: the steps of iter; the caller writes w through the &mut T of
\* step k (k = 0: the caller writes nothing).
iter_mut(s, k, w) ==
  /\ Running /\ Live(s)
  /\ k \in 0..Len(iter(s))
  /\ IF k = 0 THEN UNCHANGED <<values, stored>>
     ELSE /\ values' = [values EXCEPT ![s].buf[k] = w]
          /\ stored' = [stored EXCEPT ![s][iter(s)[k][1]] = Some(w)]
  /\ Returned(Call("iter_mut", s, k, w), iter(s))
  /\ UNCHANGED <<st, built, indices, parts, held, husk, heap, fault, snap>>

do_eq(s, t) ==
  /\ Running /\ Live(s) /\ Live(t)
  /\ Observed(Call("eq", s, t, "-"), Some(eq(s, t)))

\* #[derive(Clone)]: indices.clone(), then values.clone().
clone(s, t, fail) ==
  LET i == VecClone(indices[s], heap)
      v == VecClone(values[s], i.heap)
      call == Call("clone", s, t, "-")
  IN /\ Running /\ Live(s) /\ st[t] = "none"
     /\ fail \in FailPoints(Len(indices[s].buf) > 0, Len(values[s].buf) > 0)
     /\ IF fail = "none"
        THEN /\ Constructed(t, i.vec, v.vec, v.heap, stored[s], None)
             /\ Returned(call, None)
        ELSE /\ heap' = IF fail = "values" THEN i.heap ELSE heap
             /\ Failed(call)
             /\ UNCHANGED <<st, built, indices, values, stored>>
     /\ UNCHANGED <<parts, held, husk, fault, snap>>

\* A variant of into_parts that lets self be dropped.
DropSelf(iv, vv, h) == VecDropHeap(vv, VecDropHeap(iv, h))

\* mem::forget(self): no destructor runs, the heap is as it was.
ForgetSelf(iv, vv, h) == h

\* The value into_parts returns: the pair (indices, values).
IntoParts(iv, vv) == <<iv, vv>>

\* into_parts: ptr::read of both fields, then mem::forget(self).
into_parts(s) ==
  /\ Running /\ Live(s) /\ parts = <<>>
  /\ parts' = IntoParts(indices[s], values[s])
  /\ heap' = ForgetSelf(indices[s], values[s], heap)
  /\ snap' = <<indices[s].buf, values[s].buf, stored[s]>>
  /\ st' = [st EXCEPT ![s] = "none"]
  /\ indices' = [indices EXCEPT ![s] = NullVec]
  /\ values' = [values EXCEPT ![s] = NullVec]
  /\ stored' = [stored EXCEPT ![s] = NoStored]
  /\ built' = [built EXCEPT ![s] = None]
  /\ Returned(Call("into_parts", s, 0, "-"), None)
  /\ UNCHANGED <<fault, held, husk>>

\* from_parts on the pair that into_parts returned, both Vecs being of the
\* type Vec<_, Alloc> and nothing else of the caller's being in scope.
from_parts(s) ==
  /\ Running /\ st[s] = "none" /\ parts # <<>>
  /\ parts[1].alloc # BogusAlloc /\ parts[2].alloc # BogusAlloc /\ husk = <<>>
  /\ Constructed(s, parts[1], parts[2], heap, snap[3], None)
  /\ parts' = <<>>
  /\ snap' = <<>>
  /\ Returned(Call("from_parts", s, 0, "-"), None)
  /\ UNCHANGED <<fault, held, husk>>

\* The container goes out of scope: its fields are dropped in order.
drop(s) ==
  LET h1 == VecDropHeap(indices[s], heap)
  IN /\ Running /\ Live(s)
     /\ heap' = VecDropHeap(values[s], h1)
     /\ fault' = (fault \/ VecDropFault(indices[s], heap) \/ VecDropFault(values[s], h1))
     /\ st' = [st EXCEPT ![s] = "none"]
     /\ indices' = [indices EXCEPT ![s] = NullVec]
     /\ values' = [values EXCEPT ![s] = NullVec]
     /\ stored' = [stored EXCEPT ![s] = NoStored]
     /\ built' = [built EXCEPT ![s] = None]
     /\ Returned(Call("drop", s, 0, "-"), None)
     /\ UNCHANGED <<parts, held, husk, snap>>

\* The caller drops the pair it holds, with the allocators it removed from
\* it: the first Vec, then the second.  A Vec attached to BogusAlloc that
\* has a buffer panics in BogusAlloc::deallocate and its block stays
\* allocated; the other Vec is dropped all the same, while unwinding, and a
\* second panic then ends the process.
drop_parts ==
  LET p1 == VecDropPanics(parts[1])
      p2 == VecDropPanics(parts[2])
      h1 == IF p1 THEN heap ELSE VecDropHeap(parts[1], heap)
      h2 == IF p2 THEN h1 ELSE VecDropHeap(parts[2], h1)
  IN /\ Running /\ parts # <<>>
     /\ heap' = h2
     /\ fault' = \/ fault
                 \/ (~p1 /\ VecDropFault(parts[1], heap))
                 \/ (~p2 /\ VecDropFault(parts[2], h1))
     /\ parts' = <<>>
     /\ snap' = <<>>
     /\ held' = <<NoAllocator, NoAllocator>>
     /\ last' = Call("drop_parts", 0, 0, "-") /\ ret' = None
     /\ outcome' = IF p1 /\ p2 THEN "abort" ELSE IF p1 \/ p2 THEN "panic" ELSE "ok"
     /\ diag' = IF p1 \/ p2 THEN [msg |-> BogusDeallocateMsg, args |-> <<>>]
                ELSE NoDiag
     /\ UNCHANGED <<st, built, indices, values, stored, husk>>

\* The caller applies BogusAlloc::allocator to part i of the pair.
do_allocator(i) ==
  /\ Running /\ parts # <<>> /\ parts[i].alloc # BogusAlloc
  /\ LET r == allocator(parts[i])
     IN /\ parts' = [parts EXCEPT ![i] = r.vec]
        /\ held' = [held EXCEPT ![i] = r.alloc]
  /\ Returned(Call("allocator", 0, i, "-"), None)
  /\ UNCHANGED <<st, built, indices, values, stored, heap, fault, snap, husk>>

\* The caller applies BogusAlloc::take to part i and the allocator that was
\* removed from it (the safety contract of take).
do_take(i) ==
  /\ Running /\ parts # <<>> /\ parts[i].alloc = BogusAlloc /\ husk = <<>>
  /\ LET r == take(parts[i], held[i])
     IN /\ parts' = [parts EXCEPT ![i] = r.out]
        /\ husk' = <<r.vec>>
  /\ held' = [held EXCEPT ![i] = NoAllocator]
  /\ Returned(Call("take", 0, i, "-"), None)
  /\ UNCHANGED <<st, built, indices, values, stored, heap, fault, snap>>

\* The Vec that take left behind goes out of scope.
drop_husk ==
  /\ Running /\ husk # <<>>
  /\ husk' = <<>>
  /\ last' = Call("drop_husk", 0, 0, "-") /\ ret' = None
  /\ IF VecDropPanics(husk[1])
     THEN /\ outcome' = "panic"
          /\ diag' = [msg |-> BogusDeallocateMsg, args |-> <<>>]
     ELSE /\ outcome' = "ok" /\ diag' = NoDiag
  /\ UNCHANGED <<st, built, indices, values, stored, heap, fault, snap, parts, held>>

Fails == {"none", "indices", "values"}

\* One container and the parts it may be taken apart into.
Next ==
  \/ new(1)
  \/ \E x \in Arenas : new_in(1, x)
  \/ \E n \in Requests, f \in Fails : with_capacity(1, n, f)
  \/ \E n \in Requests, x \in Arenas, f \in Fails : with_capacity_in(1, n, x, f)
  \/ do_count(1)
  \/ do_is_empty(1)
  \/ \E k \in Keys : do_is_set(1, k)
  \/ \E k \in Keys : do_get(1, k)
  \/ \E k \in Keys, w \in Values : get_mut(1, k, w)
  \/ \E k \in Keys : index(1, k)
  \/ \E k \in Keys, w \in Values : index_mut(1, k, w)
  \/ \E n \in Requests, f \in Fails : reserve(1, n, f)
  \/ \E k \in Keys, w \in Values, f \in Fails : set(1, k, w, f)
  \/ do_iter(1)
  \/ \E k \in 0..(MaxIndex + 1), w \in Values : iter_mut(1, k, w)
  \/ into_parts(1)
  \/ from_parts(1)
  \/ drop(1)
  \/ drop_parts
  \/ \E i \in 1..2 : do_allocator(i)
  \/ \E i \in 1..2 : do_take(i)
  \/ drop_husk

Spec == Init /\ [][Next]_vars

\* Two containers, compared and cloned: slot 1 is built on the default
\* allocator, with any capacity; slot 2 is built on a given allocator or
\* is a clone of slot 1.
NextPair ==
  \/ new(1)
  \/ \E n \in Spaces, f \in Fails : with_capacity(1, n, f)
  \/ \E x \in Arenas : new_in(2, x)
  \/ \E f \in Fails : clone(1, 2, f)
  \/ \E s \in Slots, k \in PairKeys, w \in Values, f \in Fails : set(s, k, w, f)
  \/ \E s \in Slots : \E t \in Slots \ {s} : do_eq(s, t)

SpecPair == Init /\ [][NextPair]_vars

\* Every way of making a container: the constructors and from_parts in
\* slot 1, and the clone of slot 1 in slot 2.
NextBuild ==
  \/ new(1)
  \/ \E x \in Arenas : new_in(1, x)
  \/ \E n \in Requests, f \in Fails : with_capacity(1, n, f)
  \/ \E n \in Requests, x \in Arenas, f \in Fails : with_capacity_in(1, n, x, f)
  \/ \E k \in PairKeys, w \in Values, f \in Fails : set(1, k, w, f)
  \/ into_parts(1)
  \/ from_parts(1)
  \/ \E f \in Fails : clone(1, 2, f)
  \/ \E s \in Slots : drop(s)

SpecBuild == Init /\ [][NextBuild]_vars

----------------------------------------------------------------------------
\* Properties

StrictlyIncreasing(seq) ==
  \A i \in 1..Len(seq), j \in 1..Len(seq) : i < j => seq[i] < seq[j]

\* C1: in every state reachable from an empty container by set, reserve,
\* get_mut, index_mut and iter_mut, the indices sequence is strictly
\* increasing, so it holds no index twice.
C1_IndicesStrictlyIncreasing ==
  \A s \in Slots : Live(s) => StrictlyIncreasing(indices[s].buf)

\* A set has just inserted a new lowest index in front of two others.
C1_Witness ==
  /\ last.op = "set" /\ outcome = "ok" /\ ret = None
  /\ Len(indices[1].buf) = 3 /\ indices[1].buf[1] = last.index

\* C2: at every operation boundary the indices and the values sequences have
\* the same length, and the i-th value is the one most recently stored for
\* the i-th index.
C2_ParallelSequences ==
  \A s \in Slots :
    (Live(s) /\ Running) =>
      /\ Len(indices[s].buf) = Len(values[s].buf)
      /\ \A i \in 1..Len(indices[s].buf) :
           stored[s][indices[s].buf[i]] = Some(values[s].buf[i])

\* A set has just inserted in front of an entry that holds another value.
C2_Witness ==
  /\ last.op = "set" /\ outcome = "ok" /\ ret = None
  /\ Len(values[1].buf) >= 2 /\ indices[1].buf[1] = last.index
  /\ values[1].buf[1] # values[1].buf[2]

\* C3: immediately after set(index, value) returns, is_set(index) is true
\* and get(index) is the value just set.
C3_SetThenGet ==
  (last.op = "set" /\ outcome = "ok") =>
    /\ is_set(last.s, last.index)
    /\ get(last.s, last.index) = Some(last.value)

\* A set has just replaced a different value, between two other entries.
C3_Witness ==
  /\ last.op = "set" /\ outcome = "ok"
  /\ ret # None /\ ret # Some(last.value)
  /\ Len(indices[1].buf) = 3 /\ indices[1].buf[2] = last.index

\* C4: a set on an already-set index returns the value stored before and
\* leaves count() as it was; a set on an index that is not set returns None
\* and raises count() by exactly one.
C4_SetReturnAndCount ==
  [][\A s \in Slots, k \in Keys, w \in Values :
       (last' = Call("set", s, k, w) /\ outcome' = "ok") =>
         IF stored[s][k] # None
         THEN /\ is_set(s, k)
              /\ ret' = stored[s][k]
              /\ Len(indices'[s].buf) = count(s)
         ELSE /\ ~is_set(s, k)
              /\ ret' = None
              /\ Len(indices'[s].buf) = count(s) + 1]_vars

\* A set has just returned a previous value other than the new one.
C4_Witness ==
  /\ last.op = "set" /\ outcome = "ok"
  /\ ret # None /\ ret # Some(last.value) /\ count(1) = 2

\* C5: iter and iter_mut yield exactly count() steps, in ascending index
\* order, and every yielded pair (i, v) has get(i) = v.
C5_Iteration ==
  /\ \A s \in Slots :
       (Live(s) /\ Running) =>
         /\ Len(iter(s)) = count(s)
         /\ \A i \in 1..Len(iter(s)), j \in 1..Len(iter(s)) :
              i < j => iter(s)[i][1] < iter(s)[j][1]
         /\ \A i \in 1..Len(iter(s)) : get(s, iter(s)[i][1]) = Some(iter(s)[i][2])
  /\ (last.op \in {"iter", "iter_mut"} /\ Live(last.s)) => Len(ret) = count(last.s)
  /\ (last.op = "iter" /\ Live(last.s)) => ret = iter(last.s)

\* iter_mut has just yielded three steps and the caller wrote through one.
C5_Witness ==
  /\ last.op = "iter_mut" /\ last.index > 0 /\ Len(ret) = 3
  /\ ret[last.index][2] # last.value

DiagNames(d, idx) == \E i \in DOMAIN d.args : d.args[i] = idx

\* One step of index / index_mut / get / get_mut against the stored map.
\* named: whether the panic's diagnostic has to name the index.
IndexingStep(named) ==
  \A s \in Slots, k \in Keys :
    /\ (last'.op \in {"index", "index_mut"} /\ last'.s = s /\ last'.index = k) =>
         IF stored[s][k] = None
         THEN /\ outcome' = "panic"
              /\ diag'.msg = "accessed and empty index"
              /\ IF named THEN DiagNames(diag', k) ELSE diag'.args = <<>>
              /\ get(s, k) = None
         ELSE /\ outcome' = "ok"
              /\ ret' = get(s, k)
              /\ ret' = stored[s][k]
    /\ (last'.op \in {"get", "get_mut"} /\ last'.s = s /\ last'.index = k) =>
         /\ outcome' = "ok"
         /\ ret' = stored[s][k]

\* C6 as stated: indexing an unset index aborts with a diagnostic that
\* identifies the offending index, get / get_mut return None there without
\* aborting, and indexing a set index returns what get returns.
C6_Original == [][IndexingStep(TRUE)]_vars

\* C6 as amended: indexing an unset index panics with the fixed message
\* "accessed and empty index", which carries no index; get / get_mut return
\* None there without panicking; indexing a set index returns what get
\* returns.
C6_IndexingUnset == [][IndexingStep(FALSE)]_vars

\* index_mut has just panicked on an unset index of a non-empty container.
C6_Witness ==
  /\ last.op = "index_mut" /\ outcome = "panic"
  /\ count(1) = 2 /\ ~is_set(1, last.index)

OwnsBlock(v, h) == v.cap = 0 \/ h[v.ptr] = v.alloc.arena

\* C8: from_parts(into_parts(c)) has the indices and the values of c, in
\* order; into_parts hands both buffers over as they are, releases nothing,
\* and no buffer is ever released twice.
C8_PartsRoundTrip ==
  [][\A s \in Slots :
       /\ last' = Call("into_parts", s, 0, "-") =>
            /\ parts' = <<indices[s], values[s]>>
            /\ heap' = heap
            /\ OwnsBlock(parts'[1], heap') /\ OwnsBlock(parts'[2], heap')
            /\ ~Live(s)'
       /\ last' = Call("from_parts", s, 0, "-") =>
            /\ indices'[s].buf = snap[1] /\ values'[s].buf = snap[2]
            /\ indices'[s] = parts[1] /\ values'[s] = parts[2]
            /\ stored'[s] = snap[3]
            /\ heap' = heap
       /\ ~fault']_vars

\* A container of three entries has been taken apart and put together.
C8_Witness ==
  /\ last.op = "from_parts" /\ Live(1)
  /\ Len(indices[1].buf) = 3 /\ indices[1].cap = 4

\* C9: equality is reflexive and symmetric, and two containers are equal
\* exactly when they store the same value for every index, whatever their
\* allocators, their capacities and the order of the set calls.
C9_Equality ==
  /\ \A s \in Slots, t \in Slots :
       (Live(s) /\ Live(t) /\ Running) =>
         /\ eq(s, s)
         /\ eq(s, t) = eq(t, s)
         /\ eq(s, t) = (stored[s] = stored[t])
  /\ (last.op = "eq" /\ Live(last.s) /\ Live(last.index)) =>
       ret = Some(stored[last.s] = stored[last.index])

\* Two equal containers of two entries with different allocators and
\* different capacities have just been compared.
C9_Witness ==
  /\ last.op = "eq" /\ last.s = 1 /\ last.index = 2 /\ ret = Some(TRUE)
  /\ count(1) = 2
  /\ indices[1].alloc.arena # indices[2].alloc.arena
  /\ indices[1].cap # indices[2].cap /\ values[1].cap # values[2].cap

\* The number of entries both buffers of a Vec pair can take without growing.
Room(iv, vv) == Min(iv.cap - Len(iv.buf), vv.cap - Len(vv.buf))

\* C10: after reserve(extra) both sequences have room for extra more
\* entries and count() and the content are as before; an inserting set on a
\* container with room in both sequences reallocates neither, and no call
\* that returns takes away room except an inserting set, which takes one
\* slot: so the next extra inserting sets reallocate nothing.
C10_Reserve ==
  [][\A s \in Slots :
       /\ (Live(s) /\ Live(s)' /\ outcome' = "ok") =>
            Room(indices'[s], values'[s]) >=
              Room(indices[s], values[s])
                - (IF last'.op = "set" /\ stored[s] # stored'[s]
                      /\ Len(indices'[s].buf) # Len(indices[s].buf)
                   THEN 1 ELSE 0)
       /\ \A n \in Spaces :
            (last' = Call("reserve", s, n, "-") /\ outcome' = "ok") =>
              /\ indices'[s].cap - Len(indices'[s].buf) >= n
              /\ values'[s].cap - Len(values'[s].buf) >= n
              /\ indices'[s].buf = indices[s].buf
              /\ values'[s].buf = values[s].buf
       /\ \A k \in Keys, w \in Values :
            ( /\ last' = Call("set", s, k, w) /\ outcome' = "ok"
              /\ stored[s][k] = None
              /\ indices[s].cap > Len(indices[s].buf)
              /\ values[s].cap > Len(values[s].buf) ) =>
              /\ indices'[s].cap = indices[s].cap /\ indices'[s].ptr = indices[s].ptr
              /\ values'[s].cap = values[s].cap /\ values'[s].ptr = values[s].ptr
              /\ heap' = heap]_vars

\* reserve(2) has returned on a container of three entries whose index
\* buffer had to grow for it.
C10_Witness ==
  /\ last.op = "reserve" /\ last.index = 2 /\ outcome = "ok"
  /\ count(1) = 3 /\ indices[1].cap = 8 /\ values[1].cap = 8

\* The capacity of one buffer across an inserting set, v before and w
\* after: a buffer with a free slot keeps its capacity and its place, and a
\* full buffer is grown to take the entry.
InsertGrowth(v, w) ==
  IF Len(v.buf) < v.cap
  THEN w.cap = v.cap /\ w.ptr = v.ptr
  ELSE w.cap > v.cap /\ w.cap >= Len(v.buf) + 1

\* C11: on the container made by with_capacity(n), each of the first n
\* inserting sets (whatever the new indices, ascending included) changes
\* neither capacity (n for the indices, at least n for the values) and
\* leaves both buffers in place: no grow operation.  The
\* insert path of set asks for room for exactly one more entry: it leaves a
\* buffer with a free slot alone and grows a buffer only when it is full,
\* to a capacity that takes the new entry.
C11_NoGrowthWithinCapacity ==
  [][\A s \in Slots, k \in Keys, w \in Values :
       ( /\ last' = Call("set", s, k, w) /\ outcome' = "ok"
         /\ stored[s][k] = None ) =>
         /\ (built[s] # None /\ count(s) < built[s][1]) =>
               /\ indices[s].cap = built[s][1] /\ values[s].cap >= built[s][1]
               /\ indices'[s].cap = indices[s].cap /\ values'[s].cap = values[s].cap
               /\ indices'[s].ptr = indices[s].ptr /\ values'[s].ptr = values[s].ptr
               /\ heap' = heap
         /\ InsertGrowth(indices[s], indices'[s])
         /\ InsertGrowth(values[s], values'[s])]_vars

\* with_capacity(2), then two inserting sets in ascending order: the
\* capacities are still 2.
C11_Witness ==
  /\ last.op = "set" /\ outcome = "ok" /\ ret = None
  /\ built[1] = Some(2) /\ count(1) = 2
  /\ last.index = indices[1].buf[2]
  /\ indices[1].cap = 2 /\ values[1].cap = 2

\* The allocator values a container stores: SparseVec has the two fields
\* that from_parts fills and no field for an allocator, and each of the two
\* Vec<_, Alloc> stores one.
Allocators(c) == <<c.indices.alloc, c.values.alloc>>

\* C12 as stated: a live container, however it was made, stores one
\* allocator, and both buffers are backed by it.
C12_Original ==
  \A s \in Slots :
    Live(s) =>
      LET own == Allocators(FromParts(indices[s], values[s]))
      IN /\ Len(own) = 1
         /\ indices[s].cap # 0 => heap[indices[s].ptr] = own[1].arena
         /\ values[s].cap # 0 => heap[values[s].ptr] = own[1].arena

\* A container of two entries has been cloned: the clone has allocated a
\* buffer for each of its two Vecs.
C12_Witness ==
  /\ last.op = "clone" /\ outcome = "ok" /\ Live(1) /\ Live(2)
  /\ count(2) = 2 /\ indices[2].cap = 2 /\ values[2].cap = 2
  /\ indices[2].ptr # values[2].ptr

\* The entry of the pair (iv, vv) for index k.
Lookup(iv, vv, k) ==
  LET r == binary_search(iv.buf, k)
  IN IF r.ok THEN Some(vv.buf[r.pos + 1]) ELSE None

PartsWellFormed ==
  /\ Len(parts[1].buf) = Len(parts[2].buf)
  /\ StrictlyIncreasing(parts[1].buf)
  /\ \A k \in Keys : Lookup(parts[1], parts[2], k) = snap[3][k]

\* C13 as stated: into_parts returns three things, the two sequences and
\* the allocator, and the sequences are well formed.
C13_Original ==
  (last.op = "into_parts") =>
    /\ Len(parts) = 3
    /\ PartsWellFormed

\* A container of two entries has been taken apart.
C13_Witness ==
  /\ last.op = "into_parts" /\ ~Live(1)
  /\ parts[1].buf = <<0, 2>> /\ Len(parts[2].buf) = 2

\* Dropping v releases its buffer, if it has one, through the allocator
\* that allocated it, which is not BogusAlloc: h is the heap before and h2
\* the heap after.
Released(v, h, h2) ==
  v.cap # 0 => /\ v.alloc # BogusAlloc
               /\ h[v.ptr] = v.alloc.arena
               /\ h2[v.ptr] = "free"

\* The Vecs of the pair that are attached to BogusAlloc and have a buffer.
DetachedBuffers == {i \in DOMAIN parts : VecDropPanics(parts[i])}

\* C14: no buffer is ever released twice or through an allocator other than
\* the one that allocated it.  Dropping the container, or the pair as
\* into_parts returned it or as take put it back on its allocators,
\* releases each of the two buffers through its own allocator and returns.
\* Dropping the empty Vec that take left behind releases nothing and
\* returns.  BogusAlloc::deallocate is reached by none of these: it is
\* reached only when the caller drops a Vec with a buffer that
\* BogusAlloc::allocator has detached and take has not put back, and then
\* that buffer is not released.  No other step that returns leaves a block
\* allocated that no Vec owns.
C14_ReleasedOnce ==
  [][/\ ~fault'
     /\ \A s \in Slots :
          last' = Call("drop", s, 0, "-") =>
            /\ Released(indices[s], heap, heap')
            /\ Released(values[s], heap, heap')
            /\ outcome' = "ok"
     /\ last'.op = "drop_parts" =>
          /\ \A i \in (1..2) \ DetachedBuffers : Released(parts[i], heap, heap')
          /\ \A i \in DetachedBuffers : heap'[parts[i].ptr] = heap[parts[i].ptr]
          /\ (DetachedBuffers = {}) = (outcome' = "ok")
     /\ last'.op = "drop_husk" =>
          /\ outcome' = "ok" /\ heap' = heap
          /\ husk[1].cap = 0
     /\ diag'.msg = BogusDeallocateMsg =>
          /\ last'.op = "drop_parts"
          /\ DetachedBuffers # {}
     /\ ( /\ outcome' # "abort" /\ diag'.msg # BogusDeallocateMsg
          /\ <<heap, st, parts, husk>>' # <<heap, st, parts, husk>> ) =>
          Leaked' = Leaked]_vars

\* take has handed an allocated buffer back to its allocator and the Vec it
\* left behind has been dropped: the buffer is still allocated.
C14_Witness ==
  /\ last.op = "drop_husk" /\ outcome = "ok" /\ husk = <<>>
  /\ parts # <<>> /\ held = <<NoAllocator, NoAllocator>>
  /\ parts[1].cap > 0 /\ parts[2].cap > 0
  /\ heap[parts[1].ptr] = parts[1].alloc.arena
  /\ heap[parts[2].ptr] = parts[2].alloc.arena

\* C15 as stated: between operations the two stored sequences are attached
\* to the stand-in allocator.
C15_Original ==
  \A s \in Slots :
    Live(s) => /\ indices[s].alloc = BogusAlloc
               /\ values[s].alloc = BogusAlloc

\* reserve(1) on an empty container without buffers has returned: both
\* buffers were allocated through the allocators the sequences are still
\* attached to.
C15_Witness ==
  /\ last.op = "reserve" /\ outcome = "ok" /\ Live(1)
  /\ count(1) = 0 /\ indices[1].cap = MinNonZeroCap(IndexSize)
  /\ values[1].cap = MinNonZeroCap(ValueSize)
  /\ indices[1].alloc # BogusAlloc /\ values[1].alloc # BogusAlloc
  /\ heap[indices[1].ptr] = indices[1].alloc.arena
  /\ heap[values[1].ptr] = values[1].alloc.arena

SingleOwner == \A o, q \in Owning : BlockOf(o) = BlockOf(q) => o = q

\* C16: take(vec, allocator) returns a Vec with the pointer, the length, the
\* capacity and the elements of vec, attached to the allocator given, and
\* leaves in *vec an empty Vec attached to BogusAlloc (length 0, capacity
\* 0); the heap is untouched, and no block is owned by two Vecs at once.
C16_Take ==
  /\ [][\A i \in 1..2 :
          last' = Call("take", 0, i, "-") =>
            /\ parts'[i].ptr = parts[i].ptr
            /\ Len(parts'[i].buf) = Len(parts[i].buf)
            /\ parts'[i].cap = parts[i].cap
            /\ parts'[i].buf = parts[i].buf
            /\ parts'[i].alloc = held[i]
            /\ Len(husk') = 1
            /\ husk'[1].buf = <<>> /\ husk'[1].cap = 0
            /\ husk'[1].alloc = BogusAlloc
            /\ heap' = heap]_vars
  /\ []SingleOwner

\* take has been applied to a Vec of two elements with an allocated buffer.
C16_Witness ==
  /\ last.op = "take" /\ outcome = "ok" /\ husk # <<>>
  /\ Len(parts[last.index].buf) = 2 /\ parts[last.index].cap > 0
  /\ parts[last.index].alloc # BogusAlloc

\* take after allocator gives back the Vec allocator was applied to.
TakeOfAllocator(v) ==
  LET d == allocator(v)
      r == take(d.vec, d.alloc)
  IN /\ r.out = v
     /\ d.vec.ptr = v.ptr /\ d.vec.cap = v.cap /\ d.vec.buf = v.buf
     /\ d.vec.alloc = BogusAlloc /\ d.alloc = v.alloc

\* allocator after take gives back the Vec and the allocator take was
\* applied to.
AllocatorOfTake(b, a) ==
  LET r == take(b, a)
      d == allocator(r.out)
  IN d.vec = b /\ d.alloc = a

\* C17: allocator(vec) returns the Vec with the same pointer, length,
\* capacity and elements attached to BogusAlloc, together with the allocator
\* vec had; it is the inverse of take: for every Vec v attached to a real
\* allocator, take applied to the two results of allocator(v) returns v, and
\* for every Vec b attached to BogusAlloc and allocator a, allocator applied
\* to take(b, a) returns b and a.
C17_AllocatorInvertsTake ==
  /\ [][\A i \in 1..2 :
          last' = Call("allocator", 0, i, "-") =>
            /\ parts'[i] = [parts[i] EXCEPT !.alloc = BogusAlloc]
            /\ held'[i] = parts[i].alloc
            /\ heap' = heap]_vars
  /\ [](/\ \A s \in Slots :
            Live(s) => /\ TakeOfAllocator(indices[s])
                       /\ TakeOfAllocator(values[s])
        /\ \A i \in DOMAIN parts :
            IF parts[i].alloc = BogusAlloc
            THEN AllocatorOfTake(parts[i], held[i])
            ELSE TakeOfAllocator(parts[i]))

\* allocator has been applied to a Vec of two elements with an allocated
\* buffer: the caller holds the Vec attached to BogusAlloc and the allocator.
C17_Witness ==
  /\ last.op = "allocator" /\ outcome = "ok"
  /\ parts[last.index].alloc = BogusAlloc
  /\ held[last.index] # NoAllocator /\ held[last.index] # BogusAlloc
  /\ Len(parts[last.index].buf) = 2 /\ parts[last.index].cap > 0

\* seq2 is seq with one element inserted after the first pos elements: the
\* head is in place and the tail has moved right by one slot.
ShiftedAt(seq, seq2, pos) ==
  /\ Len(seq2) = Len(seq) + 1
  /\ \A p \in 1..Len(seq) : seq2[IF p <= pos THEN p ELSE p + 1] = seq[p]

\* C18: a set(index, value) that returns changes the entry for index only:
\* for every other index j, is_set(j) and get(j) are as before.  On the
\* replace path the indices are untouched and one value is overwritten in
\* place; on the insert path the tails of both sequences move right by one
\* slot from the same position.
C18_SetFrame ==
  [][(last'.op = "set" /\ outcome' = "ok") =>
       \A s \in {last'.s}, k \in {last'.index} :
         /\ \A j \in Keys \ {k} :
              /\ is_set(s, j)' = is_set(s, j)
              /\ get(s, j)' = get(s, j)
         /\ IF is_set(s, k)
            THEN /\ indices'[s].buf = indices[s].buf
                 /\ Len(values'[s].buf) = Len(values[s].buf)
            ELSE LET pos == binary_search(indices[s].buf, k).pos
                 IN /\ ShiftedAt(indices[s].buf, indices'[s].buf, pos)
                    /\ ShiftedAt(values[s].buf, values'[s].buf, pos)]_vars

\* An entry has been inserted in front of two others, which moved right.
C18_Witness ==
  /\ last.op = "set" /\ outcome = "ok" /\ ret = None
  /\ count(1) = 3 /\ indices[1].cap = 4
  /\ last.index = indices[1].buf[1]

Readers == {"is_set", "get", "count", "is_empty", "iter"}

\* C19: in a container that the process can still use, is_set(i) is true
\* exactly when get(i) returns a value and exactly when a set (or the
\* container it was cloned or put together from) stored a value for i; an
\* index that is set stays set for as long as the container lives; is_set
\* and get return what the record of the set calls says; and is_set, get,
\* count, is_empty and iter change neither sequence nor the heap.
C19_SetIndices ==
  /\ [](\A s \in Slots :
          (Live(s) /\ outcome # "abort") =>
            \A i \in Keys :
              /\ is_set(s, i) = (get(s, i) # None)
              /\ is_set(s, i) = (stored[s][i] # None))
  /\ [][\A s \in Slots :
          /\ (Live(s) /\ Live(s)' /\ indices'[s].buf # indices[s].buf) =>
               \A i \in Keys : is_set(s, i) => is_set(s, i)'
          /\ \A i \in Keys :
               /\ last' = Call("is_set", s, i, "-") =>
                    ret' = Some(stored[s][i] # None)
               /\ last' = Call("get", s, i, "-") => ret' = stored[s][i]
          /\ (last'.op \in Readers /\ last'.s = s) =>
               /\ indices'[s] = indices[s] /\ values'[s] = values[s]
               /\ stored'[s] = stored[s]
               /\ heap' = heap /\ Live(s)']_vars

\* is_set has answered TRUE for one index of a container in which another
\* index is not set.
C19_Witness ==
  /\ last.op = "is_set" /\ ret = Some(TRUE) /\ Live(1)
  /\ get(1, last.index) # None /\ stored[1][last.index] # None
  /\ \E j \in Keys : ~is_set(1, j) /\ get(1, j) = None /\ stored[1][j] = None
====
